---- MODULE Spec2Model ----
(***************************************************************************)
(* Request execution, retry and pagination engine of the Bitrix24 client   *)
(* (src/src/bitrix24_client): the synchronous Bitrix24Client and the       *)
(* asynchronous AsyncBitrix24Client, with the remote server and the        *)
(* transport as a nondeterministic environment.                            *)
(***************************************************************************)
EXTENDS Integers, Sequences, FiniteSets, TLC

\* ------------------------------------------------------------------ bounds
MaxRetriesBound == 1      \* max_retries is drawn from 0..MaxRetriesBound
MaxConcurrent == 2        \* max_concurrent_requests is drawn from 1..MaxConcurrent
NumCalls == 2             \* logical call_method invocations that may overlap
MaxPages == 3             \* the server holds fewer than MaxPages * page_size + 1 rows
PartialPage == 20         \* rows of a short last page

\* page_size = 50 in AsyncBitrix24Client._fetch_all_pages; the server pages by it
page_size == 50

\* responses other than the good 200 that the environment injects in one
\* behaviour: enough to exhaust the retries of one request
MaxFaults == MaxRetriesBound + 1

VARIABLES
    variant,                   \* "sync": Bitrix24Client, "async": AsyncBitrix24Client
    max_retries,               \* self._max_retries
    max_concurrent_requests,   \* self.max_concurrent_requests (async only)
    client,                    \* self._client: "None" | "open"
    semaphore,                 \* free slots of self.semaphore (async only)
    server_total,              \* rows the remote list method holds
    faults,                    \* bad responses the environment has injected
    call,                      \* one record per call_method invocation
    req,                       \* one record per _make_request frame
    retry_strategy,            \* self._retry_strategy
    scope,                     \* the `with` block: "out", "in", or how it was left
    entry_pool,                \* the pool __enter__ created: "none" | "held" | "closed"
    raised,                    \* what the last session lifecycle method raised
    probe                      \* the last direct application of a pure function

\* the constructor's arguments
config == <<variant, max_retries, max_concurrent_requests, retry_strategy>>

vars == <<variant, max_retries, max_concurrent_requests, client, semaphore,
          server_total, faults, call, req, retry_strategy, scope, entry_pool, raised, probe>>

Calls == 1..NumCalls
Slots == 0..(MaxPages - 1)
ReqIds == Calls \X Slots

\* ------------------------------------------------------------ Python values
None == 0 - 1
EmptyDict == [k \in {} |-> None]
Truthy(x) == x # None /\ x # 0
Get(d, k, default) == IF k \in DOMAIN d THEN d[k] ELSE default
Min(a, b) == IF a < b THEN a ELSE b
Max(a, b) == IF a < b THEN b ELSE a

\* range(a, b, s) as a sequence, s > 0
Range(a, b, s) == [k \in 1..(IF b > a THEN (b - a + s - 1) \div s ELSE 0) |-> a + (k - 1) * s]

\* ------------------------------------------------------------- exceptions
NoError == [type |-> "none"]
Bitrix24Error(msg) == [type |-> "Bitrix24Error", msg |-> msg]
Bitrix24TimeoutError == [type |-> "Bitrix24TimeoutError", msg |-> "Request to Bitrix24 timed out"]
Bitrix24ConnectionError == [type |-> "Bitrix24ConnectionError", msg |-> "Failed to connect to Bitrix24"]
Bitrix24HTTPError(status_code, response_text) ==
    [type |-> "Bitrix24HTTPError", status_code |-> status_code, response_text |-> response_text]
Bitrix24APIError(code, description) ==
    [type |-> "Bitrix24APIError", code |-> code, description |-> description]
Bitrix24InvalidResponseError(text) == [type |-> "Bitrix24InvalidResponseError", text |-> text]
\* None has no attribute 'post': what self._client.post raises when no session is open
AttributeError == [type |-> "AttributeError", msg |-> "NoneType has no attribute post"]
TypeError == [type |-> "TypeError", msg |-> "NoneType cannot be interpreted as an integer"]
\* what _calculate_delay raises for a strategy name it does not know
ValueError == [type |-> "ValueError", msg |-> "Unknown retry strategy"]

\* the classes deriving from Bitrix24Error (exceptions.py)
Bitrix24ErrorFamily ==
    {"Bitrix24Error", "Bitrix24TimeoutError", "Bitrix24ConnectionError", "Bitrix24HTTPError",
     "Bitrix24APIError", "Bitrix24InvalidResponseError", "Bitrix24InvalidBaseURLError"}

MaxRetriesMsg == "Max retries exceeded for 503 error"
ExceededMsg == "Exceeded maximum retry attempts"
RequestErrorMsg == "Request error to Bitrix24"

\* ------------------------------------------------- the server and transport
\* A body is the response text: raw names it, parses says whether json.loads
\* accepts it, data is what json.loads returns.
Body(raw, parses, data) == [raw |-> raw, parses |-> parses, data |-> data]
NoBody == Body("", FALSE, EmptyDict)
Resp(kind, status, text) == [kind |-> kind, status |-> status, text |-> text]

Rows(offset, n) == [k \in 1..n |-> offset + k - 1]

\* The list method's answer for the page at `offset`: at most page_size rows, the
\* total, and `next` while rows remain.
ServerPage(offset) ==
    LET n == Max(0, Min(page_size, server_total - offset))
        base == [result |-> [kind |-> "list", items |-> Rows(offset, n)], total |-> server_total]
    IN  IF offset + page_size < server_total
            THEN [result |-> base.result, total |-> base.total, next |-> offset + page_size]
            ELSE base

GoodResponse(params) == Resp("http", 200, Body("page", TRUE, ServerPage(Get(params, "start", 0))))

BadResponses ==
    { Resp("http", 503, Body("busy", FALSE, EmptyDict)),
      Resp("http", 404, Body("not found", FALSE, EmptyDict)),
      Resp("http", 500, Body("server error", FALSE, EmptyDict)),
      Resp("http", 200, Body("<html>", FALSE, EmptyDict)),
      Resp("http", 200, Body("api error", TRUE,
            [error |-> "QUERY_LIMIT_EXCEEDED", error_description |-> "Too many requests"])),
      Resp("Timeout", 0, NoBody),
      Resp("ConnectionError", 0, NoBody),
      Resp("RequestException", 0, NoBody) }

\* --------------------------------------------------------- pure functions
\* A body whose JSON value is not an object: type is the Python type json.loads
\* gives, members the x for which `x in value` is true (the elements of a list,
\* the substrings of a string), data stands for the value.
OtherBody(raw, type, members, data) ==
    [raw |-> raw, parses |-> TRUE, data |-> data, type |-> type, members |-> members]
TypeOf(text) == IF "type" \in DOMAIN text THEN text.type ELSE "dict"

\* `x in data` for a value that supports it
Contains(text, x) ==
    IF TypeOf(text) = "dict" THEN x \in DOMAIN text.data ELSE x \in text.members

\* `"error" in data` on None or a number; data.get on a list or a string
NotIterable == [type |-> "TypeError", msg |-> "argument is not iterable"]
NoAttributeGet == [type |-> "AttributeError", msg |-> "object has no attribute get"]

\* data.get("error_description") or "No description"
DescriptionOf(data) ==
    IF Get(data, "error_description", "") # "" THEN data["error_description"]
    ELSE "No description"

\* BaseBitrix24Client._validate_response: [ok, data, error]
_validate_response(response_text) ==
    IF ~response_text.parses
        THEN [ok |-> FALSE, data |-> EmptyDict, error |-> Bitrix24InvalidResponseError(response_text.raw)]
    ELSE IF TypeOf(response_text) \in {"NoneType", "int"}
        THEN [ok |-> FALSE, data |-> EmptyDict, error |-> NotIterable]
    ELSE IF Contains(response_text, "error")
        THEN [ok |-> FALSE, data |-> EmptyDict,
              error |-> IF TypeOf(response_text) = "dict"
                          THEN Bitrix24APIError(response_text.data["error"],
                                                DescriptionOf(response_text.data))
                          ELSE NoAttributeGet]
    ELSE [ok |-> TRUE, data |-> response_text.data, error |-> NoError]

\* rate_limit_pause = 1.0 and max_delay = 20.0 seconds, the constructor's
\* defaults, in milliseconds
rate_limit_pause == 1000
max_delay == 20000

\* str.lower() on the names in use
Lower(name) == IF name = "EXPONENTIAL" THEN "exponential" ELSE name

\* math.log1p(n) in thousandths, rounded down, n in 1..8
Log1pMilli(n) == <<693, 1098, 1386, 1609, 1791, 1945, 2079, 2197>>[n]

RECURSIVE Pow2(_)
Pow2(n) == IF n = 0 THEN 1 ELSE 2 * Pow2(n - 1)

\* random.uniform(0, delay): the point u / JitterSteps of the way from 0 to delay
JitterSteps == 2
Uniform(delay, u) == (delay * u) \div JitterSteps

\* min(delay, self._max_delay)
ClampMut(delay, cap) == delay
Clamp(delay, cap) == Min(delay, cap)

\* BaseBitrix24Client._calculate_delay, in milliseconds: [ok, delay, error]; u is
\* the draw of random.uniform, read by exponential_jitter only
_calculate_delay(strategy0, base, cap, retries, u) ==
    LET strategy == Lower(strategy0)
        exp == (base * Pow2(retries)) \div 2
        Ok(delay) == [ok |-> TRUE, delay |-> Clamp(delay, cap), error |-> NoError]
    IN  IF strategy = "fixed" THEN Ok(base)
        ELSE IF strategy = "linear" THEN Ok(IF retries > 0 THEN base * retries ELSE base)
        ELSE IF strategy = "logarithmic"
            THEN Ok(IF retries > 0 THEN (base * Log1pMilli(retries)) \div 1000 ELSE base)
        ELSE IF strategy = "exponential" THEN Ok(exp)
        ELSE IF strategy = "exponential_jitter" THEN Ok(Uniform(exp, u))
        ELSE [ok |-> FALSE, delay |-> 0, error |-> ValueError]

\* A dict in insertion order is the sequence of its <<key, value>> pairs.
\* list(d.keys())
Keys(d) == [k \in 1..Len(d) |-> d[k][1]]
\* d[key]
Lookup(d, key) == d[CHOOSE k \in 1..Len(d) : d[k][1] = key][2]

\* seq[i:j] for 0 <= i <= j
SliceMut(seq, i, j) == SubSeq(seq, i + 1, Min(j - 1, Len(seq)))
Slice(seq, i, j) == SubSeq(seq, i + 1, Min(j, Len(seq)))

\* utils.chunk_batch_requests, chunk_size >= 1: the list of the chunks
chunk_batch_requests(commands, chunk_size) ==
    LET starts == Range(0, Len(commands), chunk_size)
        chunk(i) == LET ks == Slice(Keys(commands), i, i + chunk_size)
                    IN  [k \in 1..Len(ks) |-> <<ks[k], Lookup(commands, ks[k])>>]
    IN  [j \in 1..Len(starts) |-> chunk(starts[j])]

\* list(results.keys())[0]
FirstKeyMut(results) == results.keys[Len(results.keys)]
FirstKey(results) == results.keys[1]

\* BaseBitrix24Client._handle_response: <<results, next, total>>
_handle_response(data, fetch_all) ==
    LET results0 == Get(data, "result", [kind |-> "list", items |-> <<>>])
        results == IF results0.kind = "dict" THEN results0.values[FirstKey(results0)]
                   ELSE results0.items
    IN  IF fetch_all THEN <<results, Get(data, "next", None), Get(data, "total", None)>>
        ELSE <<results, None, None>>

\* ---------------------------------------------------------------- frames
NoRequest ==
    [pc |-> "none", retries |-> 0, params |-> EmptyDict, holds |-> FALSE, posts |-> 0,
     log |-> <<>>, slept |-> <<>>, validated |-> <<>>, data |-> EmptyDict, error |-> NoError]
NewRequest(params) == [NoRequest EXCEPT !.pc = "ready", !.params = params]

IdleCall ==
    [pc |-> "idle", fetch_all |-> FALSE, caller_params |-> EmptyDict, params |-> EmptyDict,
     all_results |-> <<>>, ntasks |-> 0, completed |-> <<>>, ret |-> <<>>, error |-> NoError]

ParamChoices == {EmptyDict, [start |-> page_size]}
TotalChoices == {p * page_size + r : p \in 0..(MaxPages - 1), r \in {0, PartialPage}}

\* retry_strategy: the names _calculate_delay knows, and the constructor's default
Strategies == {"fixed", "linear", "logarithmic", "exponential", "exponential_jitter"}
DefaultStrategy == "exponential"

\* BaseBitrix24Client.__init__: what the constructor raises. Only the base URL is
\* checked; retry_strategy is stored as given.
__init__(url_is_valid, strategy) ==
    IF ~url_is_valid THEN [type |-> "Bitrix24InvalidBaseURLError", msg |-> "Invalid base URL"]
    ELSE NoError

\* the clients obtained by constructing one with a retry_strategy of `strategies`
InitWith(strategies) ==
    /\ retry_strategy \in strategies
    /\ __init__(TRUE, retry_strategy) = NoError
    /\ scope = "out"
    /\ entry_pool = "none"
    /\ raised = NoError
    /\ probe = [fn |-> "none"]
    /\ variant \in {"sync", "async"}
    /\ max_retries \in 0..MaxRetriesBound
    /\ max_concurrent_requests \in (IF variant = "async" THEN 1..MaxConcurrent ELSE {0})
    /\ client = "None"
    /\ semaphore = max_concurrent_requests
    /\ server_total \in TotalChoices
    /\ faults = 0
    /\ call = [c \in Calls |-> IdleCall]
    /\ req = [id \in ReqIds |-> NoRequest]

Init == InitWith({DefaultStrategy})

\* ------------------------------------------------------- session lifecycle
AlreadyOpenMsg == "Client session is already open."
NotOpenMsg == "Client session is not open."
\* None has no attribute 'close': what __exit__ raises when self._client is None
NoneHasNoClose == [type |-> "AttributeError", msg |-> "NoneType has no attribute close"]

\* if self._client is None
SessionAbsentMut(c) == TRUE
SessionAbsent(c) == c = "None"

\* self._client.close() / await self._client.aclose(): the pool's state afterwards
SessionCloseMut(pool) == pool
SessionClose(pool) == "closed"

\* the pool __enter__ created, after the pool self._client references was closed
ClosedWith(c) == IF entry_pool = "held" THEN SessionClose(c) ELSE entry_pool

\* open_session (both clients): creates the pool when none is present, raises
\* otherwise
open_session ==
    /\ IF SessionAbsent(client)
          THEN client' = "open" /\ raised' = NoError
          ELSE client' = client /\ raised' = Bitrix24Error(AlreadyOpenMsg)
    /\ UNCHANGED <<config, scope, entry_pool, probe, semaphore, server_total, faults, call, req>>

\* close_session (both clients): closes the pool and forgets it when one is
\* present, raises otherwise
close_session ==
    /\ IF ~SessionAbsent(client)
          THEN /\ client' = "None"
               /\ entry_pool' = ClosedWith(client)
               /\ raised' = NoError
          ELSE /\ client' = client
               /\ entry_pool' = entry_pool
               /\ raised' = Bitrix24Error(NotOpenMsg)
    /\ UNCHANGED <<config, scope, probe, semaphore, server_total, faults, call, req>>

\* __enter__ / __aenter__: a new pool replaces whatever self._client held
__enter__ ==
    /\ client' = "open"
    /\ entry_pool' = "held"
    /\ scope' = "in"
    /\ raised' = NoError
    /\ UNCHANGED <<config, probe, semaphore, server_total, faults, call, req>>

\* __exit__ / __aexit__(exc_type, exc_val, exc_tb): closes the pool self._client
\* references and keeps the reference; `path` is how the block was left
__exit__(path) ==
    /\ scope' = path
    /\ IF client = "None"
          THEN /\ client' = client
               /\ entry_pool' = entry_pool
               /\ raised' = NoneHasNoClose
          ELSE /\ client' = SessionClose(client)
               /\ entry_pool' = ClosedWith(client)
               /\ raised' = NoError
    /\ UNCHANGED <<config, probe, semaphore, server_total, faults, call, req>>

\* ------------------------------------------------------- request executor
\* while retries <= self._max_retries
LoopCondMut(retries) == retries < max_retries
LoopCond(retries) == retries <= max_retries

\* if retries == self._max_retries: raise Bitrix24Error("Max retries exceeded ...")
RetryCeilingMut(retries) == retries = max_retries + 1
RetryCeiling(retries) == retries = max_retries

\* if response.status_code == 503
ServiceUnavailableMut(status_code) == status_code >= 500
ServiceUnavailable(status_code) == status_code = 503

\* retries += 1
NextRetriesMut(retries) == retries
NextRetries(retries) == retries + 1

\* async with self.semaphore: a slot is taken only when one is free
CanAcquireMut(free) == TRUE
CanAcquire(free) == free > 0

RaiseMut(r, e) == [r EXCEPT !.pc = "raised", !.error = e]
Raise(r, e) == [r EXCEPT !.pc = "raised", !.error = e, !.holds = FALSE]
Return(r, d) == [r EXCEPT !.pc = "returned", !.data = d, !.holds = FALSE]
LogEntry(resp) == [kind |-> resp.kind, status |-> resp.status, raw |-> resp.text.raw]

\* the except clauses for what self._client.post raises: Timeout, ConnectionError,
\* any other RequestException
TransportErrorMut(kind) == Bitrix24Error(RequestErrorMsg)
TransportError(kind) ==
    IF kind = "Timeout" THEN Bitrix24TimeoutError
    ELSE IF kind = "ConnectionError" THEN Bitrix24ConnectionError
    ELSE Bitrix24Error(RequestErrorMsg)

\* _make_request, from the return of self._client.post to the next suspension or
\* the end of the frame. In the async client the whole block, the sleep included,
\* lies inside `async with self.semaphore`, so a frame that goes to sleep keeps
\* its slot (holds is left as it is); leaving the block releases it.
after_post(r, resp) ==
    LET r1 == [r EXCEPT !.log = Append(@, LogEntry(resp))]
    IN  IF resp.kind # "http" THEN Raise(r1, TransportError(resp.kind))
        ELSE IF ServiceUnavailable(resp.status)
            THEN IF RetryCeiling(r.retries)
                    THEN Raise(r1, Bitrix24Error(MaxRetriesMsg))
                    ELSE LET d == _calculate_delay(retry_strategy, rate_limit_pause, max_delay,
                                                   r.retries, 0)
                         IN  IF d.ok
                                THEN [r1 EXCEPT !.pc = "sleeping", !.slept = Append(@, r.retries)]
                                ELSE Raise(r1, d.error)
        ELSE IF resp.status >= 400
            THEN Raise(r1, Bitrix24HTTPError(resp.status, resp.text.raw))
        ELSE LET v == _validate_response(resp.text)
                 r2 == [r1 EXCEPT !.validated = Append(@, resp.status)]
             IN  IF v.ok THEN Return(r2, v.data) ELSE Raise(r2, v.error)

\* ------------------------------------------------ pagination orchestrator
\* an exception of _make_request is caught nowhere in _fetch or _fetch_all_pages:
\* it ends call_method, whatever was collected so far
PropagateMut(cl, e) == [cl EXCEPT !.pc = "returned", !.ret = cl.all_results]
Propagate(cl, e) == [cl EXCEPT !.pc = "raised", !.error = e]

\* _fetch (both clients), after _make_request returned data
_fetch(cl, data) == [cl EXCEPT !.pc = "returned", !.ret = _handle_response(data, FALSE)[1]]

\* params["start"] = ... on the mapping _fetch_all_pages made with params.copy():
\* the caller's mapping is another object and keeps its contents
SetStartMut(cl, start) ==
    [cl EXCEPT !.params = ("start" :> start) @@ cl.params,
               !.caller_params = ("start" :> start) @@ cl.params]
SetStart(cl, start) == [cl EXCEPT !.params = ("start" :> start) @@ cl.params]

\* results, next_page, _ = self._handle_response(response, fetch_all=True)
NextPageMut(h) == h[3]
NextPage(h) == h[2]

\* Bitrix24Client._fetch_all_pages: one turn of the while True loop after
\* _make_request returned data for frame i: <<call record, next frame or NoRequest>>
sync_fetch_all_pages(cl, data) ==
    LET h == _handle_response(data, TRUE)
        all == cl.all_results \o h[1]
    IN  IF Truthy(NextPage(h))
            THEN LET cl1 == SetStart(cl, NextPage(h))
                 IN  <<[cl1 EXCEPT !.all_results = all], NewRequest(cl1.params)>>
            ELSE <<[cl EXCEPT !.pc = "returned", !.all_results = all, !.ret = all], NoRequest>>

\* range(page_size, total, page_size): the offsets of the follow-up pages
PageStartsMut(total) == Range(page_size, total + 1, page_size)
PageStarts(total) == Range(page_size, total, page_size)

\* AsyncBitrix24Client._fetch_all_pages, after the first _make_request returned
\* data: <<call record, sequence of the page tasks' frames>>
async_fetch_all_pages(cl, data) ==
    LET h == _handle_response(data, TRUE)
    IN  IF ~Truthy(h[2])
            THEN <<[cl EXCEPT !.pc = "returned", !.ret = h[1]], <<>>>>
        ELSE IF h[3] = None
            THEN <<Propagate(cl, TypeError), <<>>>>
        ELSE LET starts == PageStarts(h[3])
                 tasks == [k \in 1..Len(starts) |-> NewRequest(SetStart(cl, starts[k]).params)]
             IN  IF Len(starts) = 0
                    THEN <<[cl EXCEPT !.pc = "returned", !.all_results = h[1], !.ret = h[1]], <<>>>>
                    ELSE <<[cl EXCEPT !.all_results = h[1], !.ntasks = Len(starts)], tasks>>

\* the order in which the pages of asyncio.gather(*tasks) are read: task order
GatherOrderMut(cl) == cl.completed
GatherOrder(cl) == [k \in 1..cl.ntasks |-> k]

ExtendPagesMut(acc, rq, c, order) == acc
RECURSIVE ExtendPages(_, _, _, _)
\* for page in pages: all_results.extend(_handle_response(page, True)[0])
ExtendPages(acc, rq, c, order) ==
    IF order = <<>> THEN acc
    ELSE ExtendPages(acc \o _handle_response(rq[<<c, Head(order)>>].data, TRUE)[1],
                     rq, c, Tail(order))

\* pages = await asyncio.gather(*tasks) and the loop after it, when task i ends
async_gather(cl, rq, c, i) ==
    LET cl1 == [cl EXCEPT !.completed = Append(@, i)]
    IN  IF rq[<<c, i>>].pc = "raised"
            THEN Propagate(cl1, rq[<<c, i>>].error)
        ELSE IF \A k \in 1..cl.ntasks : rq[<<c, k>>].pc = "returned"
            THEN LET all == ExtendPages(cl.all_results, rq, c, GatherOrder(cl1))
                 IN  [cl1 EXCEPT !.pc = "returned", !.all_results = all, !.ret = all]
        ELSE cl1

\* What the end (or suspension) of frame <<c, i>> as r1 does to its call.
Settle(c, i, r1) ==
    LET cl == call[c]
        rq == [req EXCEPT ![<<c, i>>] = r1]
    IN  IF r1.pc \notin {"returned", "raised"} \/ cl.pc # "running"
            THEN req' = rq /\ call' = call
        ELSE IF variant = "async" /\ cl.fetch_all /\ i > 0
            THEN req' = rq /\ call' = [call EXCEPT ![c] = async_gather(cl, rq, c, i)]
        ELSE IF r1.pc = "raised"
            THEN req' = rq /\ call' = [call EXCEPT ![c] = Propagate(cl, r1.error)]
        ELSE IF ~cl.fetch_all
            THEN req' = rq /\ call' = [call EXCEPT ![c] = _fetch(cl, r1.data)]
        ELSE IF variant = "sync"
            THEN LET s == sync_fetch_all_pages(cl, r1.data)
                 IN  /\ call' = [call EXCEPT ![c] = s[1]]
                     /\ req' = IF s[2].pc = "none" THEN rq ELSE [rq EXCEPT ![<<c, i + 1>>] = s[2]]
        ELSE LET s == async_fetch_all_pages(cl, r1.data)
             IN  /\ call' = [call EXCEPT ![c] = s[1]]
                 /\ req' = [id \in ReqIds |->
                              IF id[1] = c /\ id[2] \in 1..Len(s[2]) THEN s[2][id[2]] ELSE rq[id]]

\* call_method(method, params, fetch_all) up to its first _make_request
call_method(c, fetch_all, params) ==
    /\ call[c].pc \in {"idle", "returned", "raised"}
    /\ \A i \in Slots : req[<<c, i>>].pc \in {"none", "returned", "raised"}
    /\ call' = [call EXCEPT ![c] =
                  [IdleCall EXCEPT !.pc = "running", !.fetch_all = fetch_all,
                                   !.caller_params = params, !.params = params]]
    /\ req' = [id \in ReqIds |->
                 IF id[1] # c THEN req[id]
                 ELSE IF id[2] = 0 THEN NewRequest(params) ELSE NoRequest]
    /\ UNCHANGED <<config, scope, entry_pool, raised, probe, client, semaphore,
                   server_total, faults>>

\* _make_request: the loop test, the admission gate and self._client.post
make_request_post(c, i) ==
    LET r == req[<<c, i>>]
    IN  /\ r.pc = "ready"
        /\ IF ~LoopCond(r.retries)
              THEN /\ Settle(c, i, Raise(r, Bitrix24Error(ExceededMsg)))
                   /\ UNCHANGED semaphore
           ELSE /\ variant = "async" => CanAcquire(semaphore)
                /\ IF client = "None"
                      THEN /\ Settle(c, i, Raise(r, AttributeError))
                           /\ UNCHANGED semaphore
                      ELSE /\ Settle(c, i, [r EXCEPT !.pc = "posting", !.posts = @ + 1,
                                                      !.holds = (variant = "async")])
                           /\ semaphore' = IF variant = "async" THEN semaphore - 1 ELSE semaphore
        /\ UNCHANGED <<config, scope, entry_pool, raised, probe, client, server_total, faults>>

\* the transport answers the POST of frame <<c, i>> with resp
make_request_response(c, i, resp) ==
    LET r == req[<<c, i>>]
        r1 == after_post(r, resp)
    IN  /\ r.pc = "posting"
        /\ Settle(c, i, r1)
        /\ semaphore' = IF r.holds /\ ~r1.holds THEN semaphore + 1 ELSE semaphore
        /\ UNCHANGED <<config, scope, entry_pool, raised, probe, client, server_total>>

\* the server answers with the page asked for
RespondGood(c, i) ==
    /\ make_request_response(c, i, GoodResponse(req[<<c, i>>].params))
    /\ UNCHANGED faults

\* the server or the transport answers with anything else, one of `bad`
RespondBadOf(c, i, bad) ==
    /\ faults < MaxFaults
    /\ faults' = faults + 1
    /\ \E resp \in bad : make_request_response(c, i, resp)

RespondBad(c, i) == RespondBadOf(c, i, BadResponses)

\* the sleep ends: retries += 1; continue (which leaves the `async with` block)
make_request_wake(c, i) ==
    LET r == req[<<c, i>>]
    IN  /\ r.pc = "sleeping"
        /\ Settle(c, i, [r EXCEPT !.pc = "ready", !.retries = NextRetries(@), !.holds = FALSE])
        /\ semaphore' = IF r.holds THEN semaphore + 1 ELSE semaphore
        /\ UNCHANGED <<config, scope, entry_pool, raised, probe, client, server_total, faults>>

\* no _make_request frame is pending
Quiescent == \A id \in ReqIds : req[id].pc \in {"none", "returned", "raised"}

\* One logical call, the whole environment; the caller opens a closed session
\* and closes an open one while no request is pending. The async client admits
\* MaxConcurrent requests, which leaves the page tasks of the call free to
\* overlap in every order.
InitOne ==
    /\ Init
    /\ variant = "async" => max_concurrent_requests = MaxConcurrent

Next ==
    \/ Quiescent /\ client = "None" /\ open_session
    \/ Quiescent /\ client # "None" /\ close_session
    \/ call[1].pc = "idle" /\ \E fa \in BOOLEAN, p \in ParamChoices : call_method(1, fa, p)
    \/ \E i \in Slots : make_request_post(1, i)
    \/ \E i \in Slots : RespondGood(1, i)
    \/ \E i \in Slots : RespondBad(1, i)
    \/ \E i \in Slots : make_request_wake(1, i)

Spec == InitOne /\ [][Next]_vars

\* The async client with overlapping logical calls on one session: call 1 is a
\* fetch-all over a table of three pages, the other calls fetch one page; the
\* environment answers with the page or 503.
BusyResponses == {r \in BadResponses : r.kind = "http" /\ r.status = 503}

InitConc ==
    /\ Init
    /\ variant = "async"
    /\ server_total = 2 * page_size + PartialPage
    /\ max_retries = MaxRetriesBound

RespondBusy(c, i) == RespondBadOf(c, i, BusyResponses)

NextConc ==
    \/ client = "None" /\ open_session
    \/ \E c \in Calls : call_method(c, c = 1, EmptyDict)
    \/ \E c \in Calls, i \in Slots : make_request_post(c, i)
    \/ \E c \in Calls, i \in Slots : RespondGood(c, i)
    \/ \E c \in Calls, i \in Slots : RespondBusy(c, i)
    \/ \E c \in Calls, i \in Slots : make_request_wake(c, i)

SpecConc == InitConc /\ [][NextConc]_vars

\* One logical call of the same client under fair scheduling, single or
\* fetch-all over the three-page table, the server answering with the page or
\* with any failure. The event loop keeps running whatever can run: a frame that
\* can take a slot, a response that arrived, a sleep that ended; and the server
\* answers every POST.
task_step(i) ==
    \/ make_request_post(1, i)
    \/ RespondGood(1, i)
    \/ RespondBad(1, i)
    \/ make_request_wake(1, i)

NextFair ==
    \/ client = "None" /\ open_session
    \/ call[1].pc = "idle" /\ \E fa \in BOOLEAN : call_method(1, fa, EmptyDict)
    \/ \E i \in Slots : task_step(i)

FairScheduling == WF_vars(\E i \in Slots : task_step(i))

SpecFair == InitConc /\ [][NextFair]_vars /\ FairScheduling

\* The session lifecycle of one client, constructed with any retry_strategy
\* name: explicit open and close in any order, the `with` block (not nested) left
\* on any path, and calls made while the referenced pool is not a closed one.
UnknownStrategy == "quadratic"

InitLife ==
    /\ InitWith({DefaultStrategy, UnknownStrategy})
    /\ server_total = page_size + PartialPage
    /\ max_retries = MaxRetriesBound
    /\ variant = "async" => max_concurrent_requests = MaxConcurrent

\* how a `with` block may be left now
ExitPaths ==
    {"normal", "other"} \cup
    (IF call[1].error.type \in Bitrix24ErrorFamily \/ raised.type \in Bitrix24ErrorFamily
        THEN {"client_error"} ELSE {})

NextLife ==
    \/ Quiescent /\ open_session
    \/ Quiescent /\ close_session
    \/ Quiescent /\ scope # "in" /\ __enter__
    \/ Quiescent /\ scope = "in" /\ \E path \in ExitPaths : __exit__(path)
    \/ client # "closed" /\ \E fa \in BOOLEAN : call_method(1, fa, EmptyDict)
    \/ \E i \in Slots : make_request_post(1, i)
    \/ \E i \in Slots : RespondGood(1, i)
    \/ \E i \in Slots : RespondBad(1, i)
    \/ \E i \in Slots : make_request_wake(1, i)

SpecLife == InitLife /\ [][NextLife]_vars

\* The pure functions of the package applied directly, each to an input drawn
\* from a bounded set.
MaxAttempt == 4           \* _calculate_delay is applied to retries in 0..MaxAttempt

InitPure ==
    /\ Init
    /\ variant = "sync"
    /\ max_retries = 0
    /\ server_total = 0

\* one application per behaviour
Applied(fn, arg, out) ==
    /\ probe.fn = "none"
    /\ probe' = [fn |-> fn, arg |-> arg, out |-> out]
    /\ UNCHANGED <<config, client, semaphore, server_total, faults, call, req, scope,
                   entry_pool, raised>>

ListResult(items) == [kind |-> "list", items |-> items]
DictResult(keys, values) == [kind |-> "dict", keys |-> keys, values |-> values]

\* response bodies: not JSON; objects with and without `error`; JSON values that
\* are not objects
ValidatorInputs ==
    { Body("<html>", FALSE, EmptyDict),
      Body("", FALSE, EmptyDict),
      Body("{}", TRUE, EmptyDict),
      Body("result", TRUE, [result |-> ListResult(<<1, 2, 3>>)]),
      Body("page", TRUE, [result |-> ListResult(<<1, 2, 3>>), next |-> 50, total |-> 120]),
      Body("error", TRUE, [error |-> "NOT_FOUND"]),
      Body("error, empty description", TRUE, [error |-> "NOT_FOUND", error_description |-> ""]),
      Body("error, description", TRUE,
           [error |-> "QUERY_LIMIT_EXCEEDED", error_description |-> "Too many requests"]),
      Body("error, result", TRUE,
           [error |-> "ACCESS_DENIED", error_description |-> "Denied",
            result |-> ListResult(<<1>>)]),
      OtherBody("null", "NoneType", {}, None),
      OtherBody("5", "int", {}, 5),
      OtherBody("[]", "list", {}, <<>>),
      OtherBody("'ok'", "str", {"ok", "o", "k"}, "ok"),
      OtherBody("'error'", "str", {"error", "err"}, "error") }

apply_validate_response ==
    \E text \in ValidatorInputs : Applied("_validate_response", text, _validate_response(text))

\* rate_limit_pause and max_delay in milliseconds; strategy names in either case
BaseChoices == {0, 1, 500, 1000, 3000}
CapChoices == {0, 1, 1000, 20000}
StrategyChoices == Strategies \cup {"EXPONENTIAL", UnknownStrategy}

apply_calculate_delay ==
    \E strategy \in StrategyChoices, base \in BaseChoices, cap \in CapChoices,
       retries \in 0..MaxAttempt, u \in 0..JitterSteps :
        Applied("_calculate_delay",
                <<strategy, base, cap, retries, u>>,
                _calculate_delay(strategy, base, cap, retries, u))

MaxCommands == 5          \* a batch holds at most MaxCommands commands
MaxChunk == 3             \* chunk_size is drawn from 1..MaxChunk

\* command names in an order that is not the sorted one
CommandNames == <<"get_c", "get_a", "get_e", "get_b", "get_d", "get_f", "get_g">>
\* the first n commands, with the same or with different values
Commands(n, same) == [k \in 1..n |-> <<CommandNames[k], IF same THEN "crm.lead.list" ELSE k>>]

apply_chunk_batch_requests ==
    \E n \in 0..MaxCommands, same \in BOOLEAN, chunk_size \in 1..MaxChunk :
        Applied("chunk_batch_requests", <<Commands(n, same), chunk_size>>,
                chunk_batch_requests(Commands(n, same), chunk_size))

\* envelopes: `result` a list, a mapping of one or two keys, or missing; with
\* and without `next` and `total`
ResultChoices ==
    { ListResult(<<1, 2, 3>>), ListResult(<<>>),
      DictResult(<<"ITEMS">>, [ITEMS |-> <<1, 2, 3>>]),
      DictResult(<<"tasks", "meta">>, [tasks |-> <<4, 5>>, meta |-> <<6>>]) }
PagingChoices == {EmptyDict, [total |-> 3], [next |-> page_size, total |-> 120], [next |-> page_size]}
FormatterInputs == {[result |-> r] @@ p : r \in ResultChoices, p \in PagingChoices} \cup PagingChoices

apply_handle_response ==
    \E data \in FormatterInputs, fetch_all \in BOOLEAN :
        Applied("_handle_response", <<data, fetch_all>>, _handle_response(data, fetch_all))

NextPure ==
    \/ apply_validate_response
    \/ apply_handle_response
    \/ apply_calculate_delay
    \/ apply_chunk_batch_requests

SpecPure == InitPure /\ [][NextPure]_vars

TypeOK ==
    /\ client \in {"None", "open", "closed"}
    /\ scope \in {"out", "in", "normal", "client_error", "other"}
    /\ entry_pool \in {"none", "held", "closed"}
    /\ \A id \in ReqIds : req[id].pc \in {"none", "ready", "posting", "sleeping", "returned", "raised"}

\* ------------------------------------------------------------------ claims
Is503(e) == e.kind = "http" /\ e.status = 503
All503(log) == \A k \in DOMAIN log : Is503(log[k])
Last(seq) == seq[Len(seq)]
InFlight == {id \in ReqIds : req[id].pc = "posting"}
Offset(params) == Get(params, "start", 0)

\* C1: a frame whose every attempt was answered 503 (the session being present at
\* each attempt) has issued exactly max_retries + 1 POSTs, slept exactly
\* max_retries times and ended with "Max retries exceeded"; the retry counter
\* never exceeds max_retries, no POST follows the 503 received at the ceiling, and
\* no 503 body reaches the validator.
C1_AlwaysBusyExhausts ==
    \A id \in ReqIds :
        LET r == req[id]
        IN  r.pc # "none" =>
              /\ r.retries <= max_retries
              /\ r.posts <= max_retries + 1
              /\ Len(r.slept) <= max_retries
              /\ \A k \in DOMAIN r.validated : r.validated[k] # 503
              /\ (All503(r.log) /\ Len(r.log) = max_retries + 1) =>
                    /\ r.pc = "raised"
                    /\ r.posts = max_retries + 1
              /\ (r.pc = "raised" /\ All503(r.log) /\ r.error.type # "AttributeError") =>
                    /\ r.posts = max_retries + 1
                    /\ Len(r.log) = max_retries + 1
                    /\ Len(r.slept) = max_retries
                    /\ r.error = Bitrix24Error(MaxRetriesMsg)
                    /\ r.validated = <<>>

C1_Witness ==
    \E id \in ReqIds :
        /\ max_retries = MaxRetriesBound
        /\ req[id].pc = "raised"
        /\ req[id].error = Bitrix24Error(MaxRetriesMsg)
        /\ req[id].posts = max_retries + 1
        /\ Len(req[id].slept) = max_retries

\* C2: a frame returns exactly when its last response is the good 200: the k
\* responses before it were 503 with k <= max_retries, it issued k + 1 POSTs and
\* slept k times, and it returns the parsed envelope of that response; a good
\* response is never turned into an error, on the last allowed attempt either.
C2_BusyThenOkReturns ==
    \A id \in ReqIds :
        LET r == req[id]
            k == Len(r.log) - 1
        IN  /\ r.pc = "returned" =>
                  /\ k >= 0 /\ k <= max_retries
                  /\ \A j \in 1..k : Is503(r.log[j])
                  /\ Last(r.log) = [kind |-> "http", status |-> 200, raw |-> "page"]
                  /\ r.posts = k + 1
                  /\ Len(r.slept) = k
                  /\ r.validated = <<200>>
                  /\ r.data = ServerPage(Offset(r.params))
                  /\ r.error = NoError
            /\ (r.log # <<>> /\ Last(r.log).raw = "page") => r.pc = "returned"

C2_Witness ==
    \E id \in ReqIds :
        /\ max_retries = MaxRetriesBound
        /\ req[id].pc = "returned"
        /\ Len(req[id].log) = max_retries + 1
        /\ req[id].retries = max_retries

\* C3: a 4xx/5xx response other than 503 is the last response of its frame: the
\* frame has raised the HTTP error carrying that status and body text, every
\* POST of the frame was answered, and no sleep followed the response.
IsHttpError(e) == e.kind = "http" /\ e.status >= 400 /\ e.status # 503

C3_HttpErrorNotRetried ==
    \A id \in ReqIds :
        LET r == req[id]
        IN  \A k \in DOMAIN r.log :
                IsHttpError(r.log[k]) =>
                    /\ k = Len(r.log)
                    /\ r.pc = "raised"
                    /\ r.error = Bitrix24HTTPError(r.log[k].status, r.log[k].raw)
                    /\ r.posts = k
                    /\ Len(r.slept) = k - 1
                    /\ r.validated = <<>>

C3_Witness ==
    \E id \in ReqIds :
        /\ req[id].pc = "raised"
        /\ Len(req[id].log) >= 2
        /\ req[id].error = Bitrix24HTTPError(404, "not found")

\* C4: in the async client the POSTs in flight at any moment number at most
\* max_concurrent_requests.
C4_InFlightBounded ==
    variant = "async" => Cardinality(InFlight) <= max_concurrent_requests

C4_Witness ==
    /\ variant = "async"
    /\ max_concurrent_requests = MaxConcurrent
    /\ Cardinality(InFlight) = max_concurrent_requests
    /\ \E id \in InFlight : id[2] > 0
    /\ \E id \in InFlight, w \in ReqIds : id[1] # w[1] /\ req[w].pc = "ready"

\* C5: in the async client a frame asleep between two attempts holds no slot, so
\* that the free slots are exactly those not taken by a POST in flight.
C5_SleepHoldsNoSlot ==
    variant = "async" =>
        /\ \A id \in ReqIds : req[id].pc = "sleeping" => ~req[id].holds
        /\ semaphore = max_concurrent_requests - Cardinality(InFlight)

\* the rows frame <<c, k>> returned
Items(c, k) == req[<<c, k>>].data["result"].items
Created(c) == {k \in Slots : req[<<c, k>>].pc # "none"}

RECURSIVE FlatPages(_, _, _)
\* the rows of frames lo..hi of call c, one after the other
FlatPages(c, lo, hi) == IF lo > hi THEN <<>> ELSE Items(c, lo) \o FlatPages(c, lo + 1, hi)

\* C6: the list an async fetch-all returns is the first page's rows followed by
\* the rows of the follow-up pages in ascending offset order, whatever the order
\* in which the page tasks completed.
C6_AsyncOffsetOrder ==
    \A c \in Calls :
        (variant = "async" /\ call[c].fetch_all /\ call[c].pc = "returned" /\ call[c].ntasks > 0) =>
            /\ call[c].ret = FlatPages(c, 0, call[c].ntasks)
            /\ \A k \in 1..(call[c].ntasks - 1) :
                   Offset(req[<<c, k>>].params) < Offset(req[<<c, k + 1>>].params)

C6_Witness ==
    \E c \in Calls :
        /\ variant = "async" /\ call[c].fetch_all /\ call[c].pc = "returned"
        /\ call[c].completed = <<2, 1>>
        /\ Len(req[<<c, 1>>].slept) > 0
        /\ Len(req[<<c, 2>>].slept) = 0
        /\ Len(call[c].ret) = server_total

\* C7: a fetch-all that returned (either client, any caller parameters) asked for
\* no offset twice, skipped no page between the first offset asked for and the
\* total, and returned the pages' rows flat, in request order.
C7_NoRevisitNoSkip ==
    \A c \in Calls :
        (call[c].fetch_all /\ call[c].pc = "returned") =>
            LET first == Offset(req[<<c, 0>>].params)
            IN  /\ \A j, k \in Created(c) :
                       j # k => Offset(req[<<c, j>>].params) # Offset(req[<<c, k>>].params)
                /\ \A m \in 0..MaxPages :
                       (first + m * page_size < server_total) =>
                           \E k \in Created(c) : Offset(req[<<c, k>>].params) = first + m * page_size
                /\ call[c].ret = FlatPages(c, 0, Cardinality(Created(c)) - 1)

\* C8: once the first response of an async fetch-all carried `next`, the
\* follow-up requests are one per offset s, s + page_size, ... below total, s
\* being the size of the first page, and the response carried `total`.
C8_AsyncFollowUpOffsets ==
    \A c \in Calls :
        (variant = "async" /\ call[c].fetch_all /\ req[<<c, 0>>].pc = "returned"
           /\ "next" \in DOMAIN req[<<c, 0>>].data) =>
            LET s == Len(Items(c, 0))
                T == req[<<c, 0>>].data["total"]
            IN  /\ "total" \in DOMAIN req[<<c, 0>>].data
                /\ call[c].ntasks = Cardinality(Created(c)) - 1
                /\ \A k \in Slots \ {0} :
                       /\ (k \in Created(c)) <=> (s + (k - 1) * page_size < T)
                       /\ (k \in Created(c)) =>
                              req[<<c, k>>].params["start"] = s + (k - 1) * page_size

C8_Witness ==
    \E c \in Calls :
        /\ variant = "async" /\ call[c].fetch_all /\ call[c].pc = "running"
        /\ server_total = 2 * page_size + PartialPage
        /\ req[<<c, 0>>].pc = "returned"
        /\ Len(Items(c, 0)) = page_size
        /\ req[<<c, 0>>].data["next"] = page_size
        /\ Created(c) = {0, 1, 2}
        /\ req[<<c, 1>>].params["start"] = page_size
        /\ req[<<c, 2>>].params["start"] = 2 * page_size

\* C9: when the request of any page of a fetch-all failed, the call has failed
\* with the error of the page that failed first and returns no list.
Failed(c) == {k \in Slots : req[<<c, k>>].pc = "raised"}

C9_PageFailureAborts ==
    \A c \in Calls :
        (call[c].fetch_all /\ Failed(c) # {}) =>
            /\ call[c].pc = "raised"
            /\ call[c].ret = <<>>
            /\ IF call[c].completed # <<>>
                  THEN call[c].error = req[<<c, Last(call[c].completed)>>].error
                  ELSE /\ Cardinality(Failed(c)) = 1
                       /\ \A k \in Failed(c) : call[c].error = req[<<c, k>>].error

C9_Witness ==
    \E c \in Calls, i, j \in Slots :
        /\ call[c].fetch_all /\ call[c].pc = "raised"
        /\ req[<<c, i>>].pc = "returned" /\ Len(Items(c, i)) > 0
        /\ req[<<c, j>>].pc = "raised" /\ j > 0
        /\ call[c].all_results # <<>>

\* C10: a call made while no session is open, which ends without any HTTP
\* request, is rejected with an error of the Bitrix24Error family.
C10_NoSessionLifecycleError ==
    \A c \in Calls :
        (call[c].pc = "raised" /\ req[<<c, 0>>].pc = "raised" /\ req[<<c, 0>>].posts = 0) =>
            call[c].error.type \in Bitrix24ErrorFamily

\* C11: in both clients, open_session on an open session raises the lifecycle
\* error and leaves the session open; close_session on an absent session raises
\* the lifecycle error and leaves it absent; open_session on an absent session
\* makes it present and close_session on an open one makes it absent, neither
\* raising.
C11_OpenCloseLifecycle ==
    [][ /\ (open_session /\ client = "open") =>
              (client' = "open" /\ raised' = Bitrix24Error(AlreadyOpenMsg))
        /\ (open_session /\ client = "None") => (client' = "open" /\ raised' = NoError)
        /\ (close_session /\ client = "None") =>
              (client' = "None" /\ raised' = Bitrix24Error(NotOpenMsg))
        /\ (close_session /\ client = "open") => (client' = "None" /\ raised' = NoError)
        /\ raised'.type \in Bitrix24ErrorFamily \cup {"none", "AttributeError"} ]_vars

\* a request is posted on the session that a refused open_session left open
C11_Witness ==
    /\ raised = Bitrix24Error(AlreadyOpenMsg)
    /\ client = "open"
    /\ scope = "out"
    /\ req[<<1, 0>>].pc = "posting"

\* C12: once a `with` block has been left, on any path, the pool its entry
\* created is closed.
C12_ScopeExitClosesPool ==
    scope \in {"normal", "client_error", "other"} => entry_pool = "closed"

\* the block was left by the client error a call_method in it raised
C12_Witness ==
    /\ scope = "client_error"
    /\ call[1].pc = "raised"
    /\ call[1].error.type \in Bitrix24ErrorFamily
    /\ raised = NoError
    /\ client = "closed"
    /\ entry_pool = "closed"

\* C13: the validator applied to a response body ends in one of three ways: the
\* invalid-response error carrying the text when the body is not JSON; the
\* remote-API error carrying the code and the description (a generic one when
\* none is given) when the parsed value is a mapping with an `error` key,
\* whether or not `result` is present; the parsed value returned unchanged
\* otherwise.
C13_ValidatorThreeOutcomes ==
    probe.fn = "_validate_response" =>
        LET text == probe.arg
            out == probe.out
        IN  IF ~text.parses
                THEN ~out.ok /\ out.error = Bitrix24InvalidResponseError(text.raw)
            ELSE IF TypeOf(text) = "dict" /\ "error" \in DOMAIN text.data
                THEN /\ ~out.ok
                     /\ out.error.type = "Bitrix24APIError"
                     /\ out.error.code = text.data["error"]
                     /\ out.error.description =
                            (IF "error_description" \in DOMAIN text.data
                                  /\ text.data["error_description"] # ""
                                THEN text.data["error_description"] ELSE "No description")
            ELSE out.ok /\ out.data = text.data /\ out.error = NoError

\* C14: for each of the five retry policies, every attempt number, base and
\* max_delay that are not negative, the computed delay lies between 0 and
\* max_delay (the arguments applied are <<strategy, base, max_delay, retries, u>>).
C14_DelayClamped ==
    (probe.fn = "_calculate_delay" /\ Lower(probe.arg[1]) \in Strategies) =>
        /\ probe.out.ok
        /\ 0 <= probe.out.delay
        /\ probe.out.delay <= probe.arg[3]

\* the exponential delay of the last attempt exceeds max_delay and is cut to it
C14_Witness ==
    /\ probe.fn = "_calculate_delay"
    /\ probe.arg[1] = "exponential"
    /\ probe.arg[4] = MaxAttempt
    /\ probe.arg[3] > 0
    /\ probe.arg[2] * Pow2(MaxAttempt - 1) > probe.arg[3]
    /\ probe.out.delay = probe.arg[3]

\* C15: a client whose retry policy name is unknown is never obtained, so that no
\* request of such a client gets as far as a 503 response whose handling raises
\* the policy's error.
C15_UnknownPolicyNotDeferred ==
    \A id \in ReqIds :
        Lower(retry_strategy) \notin Strategies =>
            ~(req[id].pc = "raised" /\ req[id].error = ValueError /\ Is503(Last(req[id].log)))

RECURSIVE Flatten(_)
\* the chunks' entries one after the other
Flatten(chunks) == IF chunks = <<>> THEN <<>> ELSE Head(chunks) \o Flatten(Tail(chunks))

\* C16: chunk_batch_requests with chunk_size >= 1 returns chunks of at most
\* chunk_size entries, all but the last of exactly chunk_size and none empty,
\* whose entries taken in order are the original keys in their order, each once
\* and with its value; the empty mapping gives no chunk.
C16_ChunksPartition ==
    probe.fn = "chunk_batch_requests" =>
        LET commands == probe.arg[1]
            chunk_size == probe.arg[2]
            out == probe.out
        IN  /\ \A j \in 1..Len(out) : Len(out[j]) >= 1 /\ Len(out[j]) <= chunk_size
            /\ \A j \in 1..(Len(out) - 1) : Len(out[j]) = chunk_size
            /\ Flatten(out) = commands
            /\ Len(out) = (Len(commands) + chunk_size - 1) \div chunk_size
            /\ commands = <<>> => out = <<>>

\* five commands in chunks of two: sizes 2, 2, 1
C16_Witness ==
    /\ probe.fn = "chunk_batch_requests"
    /\ Len(probe.arg[1]) = 5
    /\ probe.arg[2] = 2
    /\ Len(probe.out) = 3
    /\ Len(probe.out[3]) = 1
    /\ probe.out[3][1][1] = CommandNames[5]

\* C17: a transport failure is the last event of its frame, whatever 503 retries
\* came before it: the frame has raised the timeout error for a timeout, the
\* connection error for a connection failure and the generic client error for any
\* other transport exception, every POST of the frame was answered, and no sleep
\* followed the failure.
C17_TransportFailureNotRetried ==
    \A id \in ReqIds :
        LET r == req[id]
        IN  \A k \in DOMAIN r.log :
                r.log[k].kind # "http" =>
                    /\ k = Len(r.log)
                    /\ r.pc = "raised"
                    /\ r.log[k].kind = "Timeout" => r.error = Bitrix24TimeoutError
                    /\ r.log[k].kind = "ConnectionError" => r.error = Bitrix24ConnectionError
                    /\ r.log[k].kind = "RequestException" => r.error = Bitrix24Error(RequestErrorMsg)
                    /\ r.error.type \in Bitrix24ErrorFamily
                    /\ r.posts = k
                    /\ Len(r.slept) = k - 1
                    /\ \A j \in 1..(k - 1) : Is503(r.log[j])
                    /\ r.validated = <<>>

\* a timeout on the attempt that followed a 503 retry
C17_Witness ==
    \E id \in ReqIds :
        /\ req[id].pc = "raised"
        /\ Len(req[id].log) = 2
        /\ Is503(req[id].log[1])
        /\ req[id].log[2].kind = "Timeout"
        /\ req[id].error = Bitrix24TimeoutError
        /\ req[id].posts = 2

\* C18: the formatter returns `result` as it is when it is a list and the value
\* under its first key when it is a mapping; with pagination metadata requested
\* it returns the envelope's `next` and `total`, each absent when the envelope
\* lacks it, and without it both are absent whatever the envelope holds.
C18_FormatterUnwraps ==
    probe.fn = "_handle_response" =>
        LET data == probe.arg[1]
            fetch_all == probe.arg[2]
            out == probe.out
        IN  /\ ("result" \in DOMAIN data /\ data["result"].kind = "list") =>
                   out[1] = data["result"].items
            /\ ("result" \in DOMAIN data /\ data["result"].kind = "dict") =>
                   out[1] = data["result"].values[Head(data["result"].keys)]
            /\ fetch_all =>
                   /\ out[2] = (IF "next" \in DOMAIN data THEN data["next"] ELSE None)
                   /\ out[3] = (IF "total" \in DOMAIN data THEN data["total"] ELSE None)
            /\ ~fetch_all => (out[2] = None /\ out[3] = None)

\* a mapping of two keys is unwrapped to the value under the first, and the
\* envelope's next and total are withheld when no metadata is requested
C18_Witness ==
    /\ probe.fn = "_handle_response"
    /\ ~probe.arg[2]
    /\ "next" \in DOMAIN probe.arg[1]
    /\ "result" \in DOMAIN probe.arg[1]
    /\ probe.arg[1]["result"].kind = "dict"
    /\ Len(probe.arg[1]["result"].keys) = 2
    /\ probe.out = <<(<<4, 5>>), None, None>>

\* the frames of call c that have not ended
Pending(c) == {k \in Slots : req[<<c, k>>].pc \in {"ready", "posting", "sleeping"}}
HasNext(c, k) == req[<<c, k>>].pc = "returned" /\ "next" \in DOMAIN req[<<c, k>>].data

\* C19: in a sync fetch-all at most one request is pending at any time; every
\* request after the first was issued after the previous page was returned and
\* carries as `start` the `next` of that page; a returned page without `next`
\* ends the call, whose result is the pages' rows in request order. In both
\* clients a first page without `next` ends the call with that page as the
\* result and no other request.
C19_SyncFollowsCursor ==
    \A c \in Calls :
        call[c].fetch_all =>
            /\ variant = "sync" =>
                  /\ Cardinality(Pending(c)) <= 1
                  /\ \A k \in Created(c) \ {0} :
                         /\ HasNext(c, k - 1)
                         /\ req[<<c, k>>].params["start"] = req[<<c, k - 1>>].data["next"]
                  /\ \A k \in Created(c) :
                         (req[<<c, k>>].pc = "returned" /\ ~HasNext(c, k)) =>
                             /\ k + 1 \notin Created(c)
                             /\ call[c].pc = "returned"
                  /\ call[c].pc = "returned" =>
                         /\ Pending(c) = {}
                         /\ call[c].ret = FlatPages(c, 0, Cardinality(Created(c)) - 1)
            /\ (req[<<c, 0>>].pc = "returned" /\ ~HasNext(c, 0)) =>
                  /\ Created(c) = {0}
                  /\ call[c].pc = "returned"
                  /\ call[c].ret = Items(c, 0)

\* three pages fetched one after the other, the second after a 503 retry
C19_Witness ==
    \E c \in Calls :
        /\ variant = "sync" /\ call[c].fetch_all /\ call[c].pc = "returned"
        /\ Created(c) = {0, 1, 2}
        /\ req[<<c, 1>>].posts = 2
        /\ req[<<c, 2>>].params["start"] = 2 * page_size
        /\ Len(call[c].ret) = server_total

\* C20: once an async fetch-all has failed, nothing more is done on its behalf:
\* none of its page requests issues a POST, starts a retry delay or takes a slot.
C20_SiblingsAbandoned ==
    [][ \A c \in Calls, i \in Slots :
          (variant = "async" /\ call[c].fetch_all /\ call[c].pc = "raised"
             /\ call'[c].pc = "raised") =>
              /\ req'[<<c, i>>].posts <= req[<<c, i>>].posts
              /\ Len(req'[<<c, i>>].slept) <= Len(req[<<c, i>>].slept)
              /\ req'[<<c, i>>].holds => req[<<c, i>>].holds ]_vars

RECURSIVE SleptUpTo(_, _)
\* the retry delays slept by frames 0..k of call c
SleptUpTo(c, k) == IF k < 0 THEN 0 ELSE Len(req[<<c, k>>].slept) + SleptUpTo(c, k - 1)

\* C21: a request of a call starts with attempt count 0, and the 503 retries made
\* within one logical call, those of all the page requests of a fetch-all taken
\* together, number at most max_retries.
C21_RetriesPerCallBounded ==
    \A c \in Calls :
        /\ \A k \in Slots : req[<<c, k>>].pc = "ready" /\ req[<<c, k>>].posts = 0 =>
                                 req[<<c, k>>].retries = 0
        /\ SleptUpTo(c, MaxPages - 1) <= max_retries

\* C22: the attempt number the request executor gives to _calculate_delay is at
\* least 1, and under the exponential policy the delay slept before the n-th
\* retry of a request is min(base * 2^(n-1), max_delay).
C22_AttemptCountedFromOne ==
    \A id \in ReqIds :
        \A n \in DOMAIN req[id].slept :
            /\ req[id].slept[n] >= 1
            /\ Lower(retry_strategy) = "exponential" =>
                   _calculate_delay(retry_strategy, rate_limit_pause, max_delay,
                                    req[id].slept[n], 0).delay
                       = Min(rate_limit_pause * Pow2(n - 1), max_delay)

\* C23: the caller's parameter mapping is, during and after a call of either
\* client in either mode, what it was when call_method was entered (the mapping
\* of the call's first request); the offsets of a fetch-all are written to
\* copies, each page request of an async fetch-all having a mapping of its own
\* that differs from the caller's in `start` only.
C23_CallerParamsUntouched ==
    \A c \in Calls :
        call[c].pc # "idle" =>
            /\ call[c].caller_params = req[<<c, 0>>].params
            /\ call[c].caller_params \in ParamChoices
            /\ \A k \in Created(c) \ {0} :
                   /\ "start" \in DOMAIN req[<<c, k>>].params
                   /\ \A key \in DOMAIN req[<<c, k>>].params \ {"start"} :
                          /\ key \in DOMAIN call[c].caller_params
                          /\ req[<<c, k>>].params[key] = call[c].caller_params[key]
                   /\ DOMAIN call[c].caller_params \subseteq DOMAIN req[<<c, k>>].params
            /\ variant = "async" =>
                   \A j, k \in Created(c) \ {0} :
                       j # k => req[<<c, j>>].params["start"] # req[<<c, k>>].params["start"]

\* a sync fetch-all given start = 50 has moved its own copy on to the next page
C23_Witness ==
    \E c \in Calls :
        /\ variant = "sync" /\ call[c].fetch_all /\ call[c].pc = "returned"
        /\ call[c].caller_params = [start |-> page_size]
        /\ call[c].params = [start |-> 2 * page_size]
        /\ Cardinality(Created(c)) = 2

\* the offsets a table of `total` rows is read at: 0, and every further
\* multiple of the page size below the total
OffsetsOf(total) == {0} \cup {o \in {k * page_size : k \in 1..MaxPages} : o < total}

\* the offsets the requests of call c were made with
Requested(c) == {Offset(req[<<c, k>>].params) : k \in Created(c)}

\* C24: a fetch-all without a caller-supplied `start` that returned has, in the
\* sync and in the async client alike, made one request per offset of
\* OffsetsOf(total) and no other, and returned rows 0..total-1 in order, for
\* every total >= 0 and every completion order of the async page requests; the
\* two clients, being the same function of the table, agree with each other.
C24_SyncAsyncAgree ==
    \A c \in Calls :
        (call[c].fetch_all /\ call[c].pc = "returned" /\ call[c].caller_params = EmptyDict) =>
            /\ Requested(c) = OffsetsOf(server_total)
            /\ Cardinality(Created(c)) = Cardinality(OffsetsOf(server_total))
            /\ call[c].ret = Rows(0, server_total)

\* an async fetch-all of a three-page table whose second follow-up page
\* completed before the first has returned the whole table
C24_Witness ==
    \E c \in Calls :
        /\ variant = "async" /\ call[c].fetch_all /\ call[c].pc = "returned"
        /\ call[c].caller_params = EmptyDict
        /\ server_total = 2 * page_size + PartialPage
        /\ call[c].completed = <<2, 1>>
        /\ call[c].ret = Rows(0, server_total)

\* C25: after any sequence of open_session, close_session, scope entry and
\* scope exit, the handle self._client, when present, references a pool that is
\* not closed, and open_session is refused only while such a pool is referenced.
C25_HandleIffLivePool ==
    /\ client # "closed"
    /\ raised = Bitrix24Error(AlreadyOpenMsg) => client = "open"

\* C26: in the async client with at least one slot, under fair scheduling and
\* a server that answers every POST, a call_method that is running (single or
\* fetch-all, with more page tasks than slots, with 503 retries) eventually
\* has returned or raised with none of its frames pending; whenever no frame is
\* pending, every frame that was created was admitted (it posted, or ended at
\* the gate for want of a session) and every slot is free, whichever way the
\* frames ended.
Admitted(r) == r.posts >= 1 \/ r.error = AttributeError

C26_NoStarvationNoLeak ==
    /\ (call[1].pc = "running") ~> (call[1].pc \in {"returned", "raised"} /\ Quiescent)
    /\ [](Quiescent =>
             /\ semaphore = max_concurrent_requests
             /\ \A id \in ReqIds : req[id].pc # "none" => Admitted(req[id]))

\* one slot for two page tasks: one page task retried after a 503, a transport
\* failure of a page task ended the fetch-all, every frame has ended and the
\* slot is free
C26_Witness ==
    /\ max_concurrent_requests = 1
    /\ call[1].pc = "raised" /\ call[1].ntasks = 2
    /\ call[1].error = Bitrix24TimeoutError
    /\ \E k \in Slots \ {0} : Len(req[<<1, k>>].slept) = 1
    /\ Quiescent
    /\ semaphore = max_concurrent_requests

====
